---- MODULE Spec2Model ----
(***************************************************************************)
(* setupRoot (udiRoot/src/setupRoot.c): the privileged set-up program of   *)
(* shifter.  main resets the environment, parses the command line into a   *)
(* SetupRootConfig, loads the site configuration and then drives the       *)
(* collaborators (parse_ImageData, mountImageLoop, mountImageVFS,          *)
(* setupImageSsh, startSshd, setupUserMounts) in a fixed order, leaving    *)
(* the process on the first failure.                                       *)
(*                                                                         *)
(* Conventions of the model                                                *)
(*  - a C string is a sequence of byte codes 1..255 (<<97, 58, 98>> is     *)
(*    "a:b"); a char * is a record: Null, or Str(s);                       *)
(*  - a char ** array is a record [alloc, bytes, slots]: whether the base  *)
(*    pointer is non-NULL, the bytes the last realloc asked for, and the   *)
(*    contents of the slots the program has written, slot i at slots[i+1]; *)
(*    a cursor (volumeMapFrom_ptr, ...) is its offset from the base;       *)
(*  - a write past the allocated bytes is undefined behaviour: the step    *)
(*    that makes it picks one of the outcomes a build can show ("kept":    *)
(*    the allocator's padding absorbs it, "clobber": the slots outside the *)
(*    allocation do not keep what was written, "crash": the allocator      *)
(*    detects the corruption and the process dies of SIGABRT);             *)
(*    a later read of a slot that did not keep its value (the loop of the  *)
(*    verbose dump) prints it or dies of SIGSEGV;                          *)
(*  - strdup and the malloc of _filterString are taken to succeed (the     *)
(*    program tests none of strdup's results); the failure of realloc,     *)
(*    which the program tests, is modelled;                                *)
(*  - the collaborators are outside this file: a call returns 0 or not,    *)
(*    chosen by the environment, and is recorded in calls.                 *)
(***************************************************************************)
EXTENDS Integers, Sequences, FiniteSets, TLC

\* ------------------------------------------------------------------ bounds
\* -v options accepted on one command line
MaxVol == 2
\* positional arguments on one command line
MaxPos == 3
\* length of the strings given to _filterString on its own
MaxLen == 2
\* length of the -v arguments given to the strtok calls on their own
MaxOptLen == 7

\* ------------------------------------------------------- program constants
\* #define VOLUME_ALLOC_BLOCK 10
VOLUME_ALLOC_BLOCK == 10
\* sizeof(char *): the width of one slot of volumeMapFrom/To/Flags
PtrSize == 8
\* ':' the delimiter given to strtok
Colon == 58

\* ------------------------------------------------------------ C strings
Null == [k |-> "null", s |-> <<>>]
Junk == [k |-> "junk", s |-> <<>>]
Str(s) == [k |-> "str", s |-> s]

\* isalnum in the "C" locale (the program never calls setlocale): '0'..'9',
\* 'A'..'Z', 'a'..'z'; no byte above 127 is alphanumeric.
isalnum(c) == (c >= 48 /\ c <= 57) \/ (c >= 65 /\ c <= 90) \/ (c >= 97 /\ c <= 122)

\* the condition of _filterString's if: isalnum or one of _ : . + -
Permitted(c) == isalnum(c) \/ c = 95 \/ c = 58 \/ c = 46 \/ c = 43 \/ c = 45

\* the while loop of _filterString: rptr is at input[i], wptr - ret = Len(out),
\* len = strlen(input) + 1; *rptr = 0 at i = Len(input) + 1.
RECURSIVE FilterLoop(_, _, _)
FilterLoop(input, i, out) ==
    IF Len(out) < Len(input) + 1 /\ i <= Len(input)
    THEN FilterLoop(input, i + 1,
                    IF Permitted(input[i]) THEN Append(out, input[i]) ELSE out)
    ELSE out

\* a variant that copies every byte
filterStringCopy(input) == input

\* a variant whose loop stops at the first rejected byte
filterStringStop(input) ==
    IF input.k = "null" THEN Null
    ELSE LET bad == {i \in 1..Len(input.s) : ~Permitted(input.s[i])}
             n == IF bad = {} THEN Len(input.s)
                  ELSE (CHOOSE i \in bad : \A j \in bad : i <= j) - 1
         IN Str(SubSeq(input.s, 1, n))

\* _filterString(input): NULL for NULL, else the filtered copy
filterString(input) ==
    IF input.k = "null" THEN Null ELSE Str(FilterLoop(input.s, 1, <<>>))

\* ------------------------------------------------------------ strtok
\* first index >= i of s that is not a delimiter (Len(s) + 1 when none)
RECURSIVE SkipDelims(_, _)
SkipDelims(s, i) ==
    IF i <= Len(s) /\ s[i] = Colon THEN SkipDelims(s, i + 1) ELSE i

\* a variant that takes everything up to the end of the string as the token
TokenEndAll(s, i) == Len(s) + 1

\* first index >= i of s that is a delimiter (Len(s) + 1 when none)
RECURSIVE TokenEnd(_, _)
TokenEnd(s, i) ==
    IF i <= Len(s) /\ s[i] # Colon THEN TokenEnd(s, i + 1) ELSE i

\* one strtok call scanning s from index i: the token (Null when only
\* delimiters are left) and the index the next call scans from.
strtok(s, i) ==
    LET b == SkipDelims(s, i)
        e == TokenEnd(s, b)
    IN IF b > Len(s) THEN [tok |-> Null, next |-> b]
       ELSE [tok |-> Str(SubSeq(s, b, e - 1)), next |-> e + 1]

\* the three strtok calls of case 'v'
VolumeTokens(optarg) ==
    LET t1 == strtok(optarg, 1)
        t2 == strtok(optarg, t1.next)
        t3 == strtok(optarg, t2.next)
    IN [from |-> t1.tok, to |-> t2.tok, flags |-> t3.tok]

\* ------------------------------------------------------------ strtoul
RECURSIVE DigitsValue(_, _, _)
DigitsValue(s, i, acc) ==
    IF i <= Len(s) /\ s[i] >= 48 /\ s[i] <= 57
    THEN DigitsValue(s, i + 1, acc * 10 + (s[i] - 48))
    ELSE acc

\* (uid_t) strtoul(optarg, NULL, 10): the value of the leading run of decimal
\* digits, 0 when there is none.  The arguments of the model carry no sign or
\* leading blank and stay far below 2^32, the width of uid_t.
strtoul(s) == DigitsValue(s, 1, 0)

\* ------------------------------------------------------------ inputs
\* what the invoking workload manager may leave in the environment
InheritedEnvs ==
    { {}, {<<"PATH", "/tmp/evil">>}, {<<"LD_PRELOAD", "/tmp/x.so">>},
      {<<"PATH", "/tmp/evil">>, <<"LD_PRELOAD", "/tmp/x.so">>} }

\* -s and -u arguments: "" and "k"
StrArgs == { <<>>, <<107>> }
\* -U arguments: "0", "10", "x"
UidArgs == { <<48>>, <<49, 48>>, <<120>> }
\* -N arguments: "n"
NodeArgs == { <<110>> }
\* -v arguments: "a:b", "b:a:r", ":a:b", "a", "a:"
VolArgs == { <<97, 58, 98>>, <<98, 58, 97, 58, 114>>, <<58, 97, 58, 98>>, <<97>>,
             <<97, 58>> }
\* positional arguments: "d", "a/:", "/;"
PosArgs == { <<100>>, <<97, 47, 58>>, <<47, 59>> }
\* what a collaborator returns: 0 on success
RetVals == {0, 1}

\* ------------------------------------------------------------ state
VARIABLES
    pc,           \* where main is: start, parse, loadSite, resolve, loop, vfs,
                  \* ssh, sshd, userMounts; or how it ended: done, aborted, crashed
    env,          \* the process environment: a set of <<name, value>>
    envResets,    \* how many times clearenv + setenv("PATH") ran
    config,       \* SetupRootConfig
    image,        \* ImageData: the field main reads
    volArgs,      \* the -v arguments getopt has handed over so far, in order
    posArgs,      \* the positional arguments left after the options
    calls,        \* the collaborator calls made so far, in order
    stdout,       \* the configuration dumps the verbose path printed
    exited,       \* the process is gone
    exitStatus,   \* its exit status, once exited
    filterIn,     \* _filterString on its own: the input
    filterOut,    \* _filterString on its own: the result
    volIn,        \* the strtok calls of case 'v' on their own: optarg
    volOut        \* the strtok calls of case 'v' on their own: from, to, flags

vars == <<pc, env, envResets, config, image, volArgs, posArgs, calls, stdout,
          exited, exitStatus, filterIn, filterOut, volIn, volOut>>

\* a char ** that is NULL
NullArray == [alloc |-> FALSE, bytes |-> 0, slots |-> <<>>]

\* memset(&config, 0, sizeof(SetupRootConfig))
ZeroConfig ==
    [ sshPubKey |-> Null, user |-> Null, imageType |-> Null,
      imageIdentifier |-> Null, uid |-> 0, minNodeSpec |-> Null,
      volumeMapFrom |-> NullArray, volumeMapTo |-> NullArray,
      volumeMapFlags |-> NullArray, volumeMap_capacity |-> 0,
      volumeMapFrom_ptr |-> 0, volumeMapTo_ptr |-> 0, volumeMapFlags_ptr |-> 0,
      verbose |-> 0 ]

\* the memsets at the top of main; the environment is the caller's
Init ==
    /\ pc = "start"
    /\ env \in InheritedEnvs
    /\ envResets = 0
    /\ config = ZeroConfig
    /\ image = [useLoopMount |-> FALSE]
    /\ volArgs = <<>>
    /\ posArgs = <<>>
    /\ calls = <<>>
    /\ stdout = <<>>
    /\ exited = FALSE
    /\ exitStatus = 0
    /\ filterIn = Null
    /\ filterOut = Null
    /\ volIn = <<>>
    /\ volOut = [from |-> Null, to |-> Null, flags |-> Null]

\* exit(status)
Exit(status) ==
    /\ pc' = (IF status = 0 THEN "done" ELSE "aborted")
    /\ exited' = TRUE
    /\ exitStatus' = status

\* ------------------------------------------------------ Environment Reset
\* the trusted PATH
TrustedPath == "/usr/bin:/usr/sbin:/bin:/sbin"

\* a variant without clearenv
ResetEnvKeep(e) == {v \in e : v[1] # "PATH"} \cup {<<"PATH", TrustedPath>>}

\* clearenv(); setenv("PATH", ..., 1)
ResetEnv(e) == {<<"PATH", TrustedPath>>}

EnvReset ==
    /\ pc = "start"
    /\ env' = ResetEnv(env)
    /\ envResets' = envResets + 1
    /\ pc' = "parse"
    /\ UNCHANGED <<config, image, volArgs, posArgs, calls, stdout, exited,
                   exitStatus, filterIn, filterOut, volIn, volOut>>

\* ------------------------------------------------ parse_SetupRootConfig
\* case 'V'
OptVerbose ==
    /\ pc = "parse"
    /\ config' = [config EXCEPT !.verbose = 1]
    /\ UNCHANGED <<pc, env, envResets, image, volArgs, posArgs, calls, stdout,
                   exited, exitStatus, filterIn, filterOut, volIn, volOut>>

\* case 's'
OptSshPubKey ==
    /\ pc = "parse"
    /\ \E optarg \in StrArgs : config' = [config EXCEPT !.sshPubKey = Str(optarg)]
    /\ UNCHANGED <<pc, env, envResets, image, volArgs, posArgs, calls, stdout,
                   exited, exitStatus, filterIn, filterOut, volIn, volOut>>

\* case 'u'
OptUser ==
    /\ pc = "parse"
    /\ \E optarg \in StrArgs : config' = [config EXCEPT !.user = Str(optarg)]
    /\ UNCHANGED <<pc, env, envResets, image, volArgs, posArgs, calls, stdout,
                   exited, exitStatus, filterIn, filterOut, volIn, volOut>>

\* case 'U'
OptUid ==
    /\ pc = "parse"
    /\ \E optarg \in UidArgs : config' = [config EXCEPT !.uid = strtoul(optarg)]
    /\ UNCHANGED <<pc, env, envResets, image, volArgs, posArgs, calls, stdout,
                   exited, exitStatus, filterIn, filterOut, volIn, volOut>>

\* case 'N'
OptMinNodeSpec ==
    /\ pc = "parse"
    /\ \E optarg \in NodeArgs : config' = [config EXCEPT !.minNodeSpec = Str(optarg)]
    /\ UNCHANGED <<pc, env, envResets, image, volArgs, posArgs, calls, stdout,
                   exited, exitStatus, filterIn, filterOut, volIn, volOut>>

\* case '?': an unknown option, or an option without its argument; _usage(1)
OptError ==
    /\ pc = "parse"
    /\ Exit(1)
    /\ UNCHANGED <<env, envResets, config, image, volArgs, posArgs, calls, stdout,
                   filterIn, filterOut, volIn, volOut>>

\* slot i (counted from 0) lies inside an allocation of `bytes` bytes
InBounds(i, bytes) == (i + 1) * PtrSize <= bytes

\* what writing up to slot `top` of an allocation of `bytes` bytes can lead to:
\* inside the allocation the slots keep what is written; past it the write is
\* undefined behaviour.
WriteOutcomes(top, bytes) ==
    IF InBounds(top, bytes) THEN {"kept"} ELSE {"kept", "clobber", "crash"}

\* the array a, (re)allocated to `bytes` bytes, after
\*     *ptr = v; ptr++; *ptr = NULL;
\* with ptr at offset off
StoreEntry(a, off, v, bytes, outcome) ==
    [ alloc |-> TRUE, bytes |-> bytes,
      slots |-> [i \in 1..(off + 2) |->
                    LET w == IF i = off + 1 THEN v
                             ELSE IF i = off + 2 THEN Null
                             ELSE a.slots[i]
                    IN IF InBounds(i - 1, bytes) \/ outcome = "kept" THEN w ELSE Junk] ]

\* the size given to the three reallocs
GrowBytes(capacity) == capacity + VOLUME_ALLOC_BLOCK

\* case 'v'
OptVolume ==
    /\ pc = "parse"
    /\ Len(volArgs) < MaxVol
    /\ \E optarg \in VolArgs, reallocOk \in BOOLEAN, outcome \in {"kept", "clobber", "crash"} :
         LET tok == VolumeTokens(optarg)
             cnt == config.volumeMapFrom_ptr
             grow == ~config.volumeMapFrom.alloc \/ (cnt + 2) >= config.volumeMap_capacity
             bytes == IF grow THEN GrowBytes(config.volumeMap_capacity)
                      ELSE config.volumeMapFrom.bytes
             fromOff == IF grow THEN cnt ELSE config.volumeMapFrom_ptr
             toOff == IF grow THEN cnt ELSE config.volumeMapTo_ptr
             flagsOff == IF grow THEN cnt ELSE config.volumeMapFlags_ptr
         IN /\ volArgs' = Append(volArgs, optarg)
            /\ IF tok.from = Null \/ tok.to = Null
               THEN \* invalid format for volume map: _usage(1)
                    Exit(1) /\ config' = config
               ELSE IF grow /\ ~reallocOk
               THEN \* unable to allocate memory for volume map: _usage(1)
                    Exit(1) /\ config' = config
               ELSE /\ outcome \in WriteOutcomes(fromOff + 1, bytes)
                    /\ IF outcome = "crash"
                       THEN \* abort() of the allocator: killed by SIGABRT, which
                            \* the invoking shell reports as status 128 + 6
                            /\ pc' = "crashed"
                            /\ exited' = TRUE
                            /\ exitStatus' = 134
                            /\ config' = config
                       ELSE /\ config' =
                                 [config EXCEPT
                                    !.volumeMapFrom = StoreEntry(@, fromOff, tok.from, bytes, outcome),
                                    !.volumeMapTo = StoreEntry(@, toOff, tok.to, bytes, outcome),
                                    !.volumeMapFlags = StoreEntry(@, flagsOff, tok.flags, bytes, outcome),
                                    !.volumeMapFrom_ptr = fromOff + 1,
                                    !.volumeMapTo_ptr = toOff + 1,
                                    !.volumeMapFlags_ptr = flagsOff + 1]
                            /\ UNCHANGED <<pc, exited, exitStatus>>
    /\ UNCHANGED <<env, envResets, image, posArgs, calls, stdout, filterIn, filterOut, volIn, volOut>>

\* a variant that only asks for enough positional arguments
BadRemainingFew(remaining) == remaining < 2

\* if (remaining != 2)
BadRemaining(remaining) == remaining # 2

\* the end of the options: remaining = argc - optind, the two _filterString
\* calls, return 0 (so that main's test of the result never fails)
ParseEnd ==
    /\ pc = "parse"
    /\ \E n \in 0..MaxPos : \E args \in [1..n -> PosArgs] :
         /\ posArgs' = args
         /\ IF BadRemaining(n)
            THEN \* Must specify image type and image identifier: _usage(1)
                 Exit(1) /\ config' = config
            ELSE /\ config' = [config EXCEPT
                                 !.imageType = filterString(Str(args[1])),
                                 !.imageIdentifier = filterString(Str(args[2]))]
                 /\ pc' = "loadSite"
                 /\ UNCHANGED <<exited, exitStatus>>
    /\ UNCHANGED <<env, envResets, image, volArgs, calls, stdout, filterIn, filterOut, volIn, volOut>>

\* ------------------------------------------------ fprint_SetupRootConfig
\* (s ? s : "")
OrEmpty(p) == IF p = Null THEN <<>> ELSE p.s

\* the for loop over the three arrays, from slot i on: it stops at the first
\* NULL of from or to (and at the last slot the program has written)
RECURSIVE DumpEntries(_, _)
DumpEntries(c, i) ==
    IF i > Len(c.volumeMapFrom.slots) \/ c.volumeMapFrom.slots[i] = Null
       \/ c.volumeMapTo.slots[i] = Null
    THEN <<>>
    ELSE <<[from |-> c.volumeMapFrom.slots[i], to |-> c.volumeMapTo.slots[i],
            flags |-> c.volumeMapFlags.slots[i]]>> \o DumpEntries(c, i + 1)

\* the for loop comes to a slot that was written outside the allocation and did
\* not keep what was written: an indeterminate pointer, tested and printed
\* with %s
DumpReadsJunk(c) ==
    /\ c.volumeMapFrom.alloc
    /\ \E i \in 1..Len(c.volumeMapFrom.slots) :
          /\ Junk \in {c.volumeMapFrom.slots[i], c.volumeMapTo.slots[i],
                       c.volumeMapFlags.slots[i]}
          /\ \A j \in 1..(i - 1) :
                c.volumeMapFrom.slots[j] # Null /\ c.volumeMapTo.slots[j] # Null

\* what the dump can lead to: it prints, or, following an indeterminate
\* pointer (undefined behaviour), the process dies of SIGSEGV
DumpOutcomes(c) == IF DumpReadsJunk(c) THEN {"printed", "crash"} ELSE {"printed"}

\* the text fprint_SetupRootConfig writes, field by field
fprint_SetupRootConfig(c) ==
    [ imageType |-> OrEmpty(c.imageType),
      imageIdentifier |-> OrEmpty(c.imageIdentifier),
      sshPubKey |-> OrEmpty(c.sshPubKey),
      user |-> OrEmpty(c.user),
      uid |-> c.uid,
      minNodeSpec |-> OrEmpty(c.minNodeSpec),
      maps |-> c.volumeMapFrom_ptr,
      entries |-> IF c.volumeMapFrom.alloc THEN DumpEntries(c, 1) ELSE <<>> ]

\* ------------------------------------------------------------ main
\* one collaborator call, as recorded in calls
Call(fn, args, ret) == [fn |-> fn, args |-> args, ret |-> ret]

\* a variant of main that undoes the mounts when a later stage fails
InvokeUndo(cs, c) ==
    IF c.ret # 0 /\ \E i \in 1..Len(cs) : cs[i].fn = "mountImageVFS"
    THEN Append(Append(cs, c), Call("unmountImage", <<>>, 0))
    ELSE Append(cs, c)

\* the calls made once main has made call c and dealt with its result: the
\* call itself and nothing else (on failure fprintf and exit(1))
Invoke(cs, c) == Append(cs, c)

\* a variant that hands the two strings to mountImageVFS in the other order
VfsArgsSwapped(c) == [user |-> c.minNodeSpec, minNodeSpec |-> c.user]

\* the arguments of mountImageVFS taken from the configuration
VfsArgs(c) == [user |-> c.user, minNodeSpec |-> c.minNodeSpec]

\* the test of lines 143-145 that guards the SSH block
SshCondition(c) ==
    /\ c.sshPubKey # Null /\ Len(c.sshPubKey.s) > 0
    /\ c.user # Null /\ Len(c.user.s) > 0
    /\ c.uid # 0

\* a variant of main that goes on after a failed getImage
AfterGetImageIgnore(ret) == "next"

\* what main does with the result of getImage
AfterGetImage(ret) == IF ret # 0 THEN "exit" ELSE "next"

\* a variant of main that goes on after a failed mountImageVFS
AfterVfsIgnore(ret) == "next"

\* what main does with the result of mountImageVFS
AfterVfs(ret) == IF ret # 0 THEN "exit" ELSE "next"

\* a variant of main that attaches a loop device whatever the image says
AfterResolveAlwaysLoop(useLoopMount) == "loop"

\* where main goes after getImage: if (image.useLoopMount)
AfterResolve(useLoopMount) == IF useLoopMount THEN "loop" ELSE "vfs"

\* a variant of main without the SSH test
AfterMountAlways(c) == "ssh"

\* where main goes after mountImageVFS
AfterMount(c) == IF SshCondition(c) THEN "ssh" ELSE "userMounts"

\* a variant of main that starts sshd whatever setupImageSsh returned
AfterSshIgnore(ret) == "next"

\* what main does with the result of setupImageSsh
AfterSsh(ret) == IF ret # 0 THEN "exit" ELSE "next"

\* a variant of main that goes on after a failed startSshd
AfterSshdIgnore(ret) == "next"

\* what main does with the result of startSshd
AfterSshd(ret) == IF ret # 0 THEN "exit" ELSE "next"

\* parse_UdiRootConfig(UDIROOT_CONFIG_FILE, &udiConfig, 0) and the verbose dump
LoadSiteConfig ==
    /\ pc = "loadSite"
    /\ \E ret \in RetVals, dump \in {"printed", "crash"} :
         /\ calls' = Invoke(calls, Call("parse_UdiRootConfig", <<>>, ret))
         /\ IF ret # 0
            THEN Exit(1) /\ stdout' = stdout
            ELSE IF config.verbose # 0
            THEN /\ dump \in DumpOutcomes(config)
                 /\ IF dump = "crash"
                    THEN \* killed by SIGSEGV, which the invoking shell reports
                         \* as status 128 + 11
                         /\ pc' = "crashed"
                         /\ exited' = TRUE
                         /\ exitStatus' = 139
                         /\ stdout' = stdout
                    ELSE /\ pc' = "resolve"
                         /\ stdout' = stdout \o <<fprint_SetupRootConfig(config)>>
                         /\ UNCHANGED <<exited, exitStatus>>
            ELSE /\ pc' = "resolve"
                 /\ stdout' = stdout
                 /\ UNCHANGED <<exited, exitStatus>>
    /\ UNCHANGED <<env, envResets, config, image, volArgs, posArgs, filterIn, filterOut, volIn, volOut>>

\* getImage: parse_ImageData(config->imageIdentifier, udiConfig, imageData)
ResolveImage ==
    /\ pc = "resolve"
    /\ \E ret \in RetVals, useLoopMount \in BOOLEAN :
         /\ calls' = Invoke(calls, Call("parse_ImageData",
                                        [identifier |-> config.imageIdentifier], ret))
         /\ IF AfterGetImage(ret) = "exit"
            THEN Exit(1) /\ image' = image
            ELSE /\ image' = [useLoopMount |-> useLoopMount]
                 /\ pc' = AfterResolve(useLoopMount)
                 /\ UNCHANGED <<exited, exitStatus>>
    /\ UNCHANGED <<env, envResets, config, volArgs, posArgs, stdout, filterIn, filterOut, volIn, volOut>>

\* mountImageLoop(&image, &udiConfig)
LoopAttach ==
    /\ pc = "loop"
    /\ \E ret \in RetVals :
         /\ calls' = Invoke(calls, Call("mountImageLoop", <<>>, ret))
         /\ IF ret # 0
            THEN Exit(1)
            ELSE pc' = "vfs" /\ UNCHANGED <<exited, exitStatus>>
    /\ UNCHANGED <<env, envResets, config, image, volArgs, posArgs, stdout,
                   filterIn, filterOut, volIn, volOut>>

\* mountImageVFS(&image, config.user, config.minNodeSpec, &udiConfig)
MountVFS ==
    /\ pc = "vfs"
    /\ \E ret \in RetVals :
         /\ calls' = Invoke(calls, Call("mountImageVFS", VfsArgs(config), ret))
         /\ IF AfterVfs(ret) = "exit"
            THEN Exit(1)
            ELSE pc' = AfterMount(config) /\ UNCHANGED <<exited, exitStatus>>
    /\ UNCHANGED <<env, envResets, config, image, volArgs, posArgs, stdout,
                   filterIn, filterOut, volIn, volOut>>

\* setupImageSsh(config.sshPubKey, config.user, config.uid, &udiConfig)
SetupSsh ==
    /\ pc = "ssh"
    /\ \E ret \in RetVals :
         /\ calls' = Invoke(calls, Call("setupImageSsh",
                                        [sshPubKey |-> config.sshPubKey,
                                         user |-> config.user,
                                         uid |-> config.uid], ret))
         /\ IF AfterSsh(ret) = "exit"
            THEN Exit(1)
            ELSE pc' = "sshd" /\ UNCHANGED <<exited, exitStatus>>
    /\ UNCHANGED <<env, envResets, config, image, volArgs, posArgs, stdout,
                   filterIn, filterOut, volIn, volOut>>

\* startSshd(&udiConfig)
StartSshd ==
    /\ pc = "sshd"
    /\ \E ret \in RetVals :
         /\ calls' = Invoke(calls, Call("startSshd", <<>>, ret))
         /\ IF AfterSshd(ret) = "exit"
            THEN Exit(1)
            ELSE pc' = "userMounts" /\ UNCHANGED <<exited, exitStatus>>
    /\ UNCHANGED <<env, envResets, config, image, volArgs, posArgs, stdout,
                   filterIn, filterOut, volIn, volOut>>

\* setupUserMounts(&image, config.volumeMapFrom, config.volumeMapTo,
\*                 config.volumeMapFlags, &udiConfig); return 0
ApplyUserMounts ==
    /\ pc = "userMounts"
    /\ \E ret \in RetVals :
         /\ calls' = Invoke(calls, Call("setupUserMounts",
                                        [from |-> config.volumeMapFrom,
                                         to |-> config.volumeMapTo,
                                         flags |-> config.volumeMapFlags], ret))
         /\ IF ret # 0 THEN Exit(1) ELSE Exit(0)
    /\ UNCHANGED <<env, envResets, config, image, volArgs, posArgs, stdout,
                   filterIn, filterOut, volIn, volOut>>

Next ==
    \/ EnvReset
    \/ OptVerbose
    \/ OptVolume
    \/ OptSshPubKey
    \/ OptUser
    \/ OptUid
    \/ OptMinNodeSpec
    \/ OptError
    \/ ParseEnd
    \/ LoadSiteConfig
    \/ ResolveImage
    \/ LoopAttach
    \/ MountVFS
    \/ SetupSsh
    \/ StartSshd
    \/ ApplyUserMounts

Spec == Init /\ [][Next]_vars

\* ------------------------------------------------ _filterString on its own
\* bytes the strings are made of: a Z 0 9 _ : . + - and the rejected
\* / (just below '0'), ';' , '@' (just below 'A'), blank, and 195 (the first
\* byte of a two-byte UTF-8 character)
FilterAlphabet == {97, 90, 48, 57, 95, 58, 46, 43, 45, 47, 59, 64, 32, 195}

\* the strings of at most n bytes
RECURSIVE StringsUpTo(_)
StringsUpTo(n) ==
    IF n = 0 THEN {<<>>}
    ELSE LET shorter == StringsUpTo(n - 1)
         IN shorter \cup {Append(s, c) : s \in shorter, c \in FilterAlphabet}

InitFilter ==
    /\ pc = "filter"
    /\ filterIn \in {Null} \cup {Str(s) : s \in StringsUpTo(MaxLen)}
    /\ filterOut = Null
    /\ volIn = <<>>
    /\ volOut = [from |-> Null, to |-> Null, flags |-> Null]
    /\ env = {}
    /\ envResets = 0
    /\ config = ZeroConfig
    /\ image = [useLoopMount |-> FALSE]
    /\ volArgs = <<>>
    /\ posArgs = <<>>
    /\ calls = <<>>
    /\ stdout = <<>>
    /\ exited = FALSE
    /\ exitStatus = 0

\* ret = _filterString(input)
ApplyFilter ==
    /\ pc = "filter"
    /\ filterOut' = filterString(filterIn)
    /\ pc' = "filtered"
    /\ UNCHANGED <<env, envResets, config, image, volArgs, posArgs, calls, stdout,
                   exited, exitStatus, filterIn, volIn, volOut>>

NextFilter == ApplyFilter

SpecFilter == InitFilter /\ [][NextFilter]_vars

\* ------------------------------------- the strtok calls of case 'v' on their own
\* bytes the -v arguments are made of: a r :
VolAlphabet == {97, 114, 58}

\* the strings of at most n bytes over VolAlphabet
RECURSIVE VolStringsUpTo(_)
VolStringsUpTo(n) ==
    IF n = 0 THEN {<<>>}
    ELSE LET shorter == VolStringsUpTo(n - 1)
         IN shorter \cup {Append(s, c) : s \in shorter, c \in VolAlphabet}

InitVolume ==
    /\ pc = "tokenize"
    /\ volIn \in VolStringsUpTo(MaxOptLen)
    /\ volOut = [from |-> Null, to |-> Null, flags |-> Null]
    /\ filterIn = Null
    /\ filterOut = Null
    /\ env = {}
    /\ envResets = 0
    /\ config = ZeroConfig
    /\ image = [useLoopMount |-> FALSE]
    /\ volArgs = <<>>
    /\ posArgs = <<>>
    /\ calls = <<>>
    /\ stdout = <<>>
    /\ exited = FALSE
    /\ exitStatus = 0

\* from = strtok(optarg, ":"); to = strtok(NULL, ":"); flags = strtok(NULL, ":")
Tokenize ==
    /\ pc = "tokenize"
    /\ volOut' = VolumeTokens(volIn)
    /\ pc' = "tokenized"
    /\ UNCHANGED <<env, envResets, config, image, volArgs, posArgs, calls, stdout,
                   exited, exitStatus, filterIn, filterOut, volIn>>

NextVolume == Tokenize

SpecVolume == InitVolume /\ [][NextVolume]_vars

\* ------------------------------------------------------------ the claims
\* positions in calls of the calls of collaborator fn
CallIdx(fn) == {i \in 1..Len(calls) : calls[i].fn = fn}
Invoked(fn) == CallIdx(fn) # {}
Succeeded(fn) == \E i \in CallIdx(fn) : calls[i].ret = 0
\* fn returned success at some position before i
SucceededBefore(fn, i) == \E j \in 1..(i - 1) : calls[j].fn = fn /\ calls[j].ret = 0
\* the SSH key and the user are set and non-empty and the uid is not 0
SshRequested ==
    /\ config.sshPubKey.k = "str" /\ config.sshPubKey.s # <<>>
    /\ config.user.k = "str" /\ config.user.s # <<>>
    /\ config.uid # 0

\* C1: mountImageVFS is never invoked before parse_ImageData has returned
\* success, and setupUserMounts never before mountImageVFS has returned success.
C1_ResolveBeforeMountBeforeUserMounts ==
    /\ \A i \in CallIdx("mountImageVFS") : SucceededBefore("parse_ImageData", i)
    /\ \A i \in CallIdx("setupUserMounts") : SucceededBefore("mountImageVFS", i)

C1_Witness ==
    /\ pc = "done"
    /\ Invoked("mountImageVFS")
    /\ Invoked("setupUserMounts")

\* C2: a stage that fails is the last thing the run does: the failed call is
\* the last call ever made, the pipeline is Aborted and the process has left
\* with a non-zero status; an abort without a failed call is a parse failure,
\* before any collaborator was invoked.  In particular nothing follows a
\* failed mountImageVFS.
C2_AbortOnFirstFailure ==
    /\ \A i \in 1..Len(calls) :
          calls[i].ret # 0 =>
             /\ i = Len(calls)
             /\ pc = "aborted"
             /\ exited
             /\ exitStatus # 0
    /\ pc = "aborted" =>
          /\ exited
          /\ exitStatus # 0
          /\ calls = <<>> \/ calls[Len(calls)].ret # 0
    /\ (calls # <<>> /\ calls[Len(calls)].ret = 0) => pc # "aborted"

C2_Witness ==
    /\ calls # <<>>
    /\ calls[Len(calls)].fn = "mountImageVFS"
    /\ calls[Len(calls)].ret # 0
    /\ pc = "aborted"
    /\ SshRequested

\* C3: once mountImageVFS has succeeded, setupImageSsh is invoked (next, or
\* already) exactly when key, user and uid are all present; when one of them is
\* absent, empty or zero neither setupImageSsh nor startSshd is ever invoked.
C3_SshIffRequested ==
    /\ Succeeded("mountImageVFS") =>
          (SshRequested <=> (pc = "ssh" \/ Invoked("setupImageSsh")))
    /\ ~SshRequested => ~Invoked("setupImageSsh") /\ ~Invoked("startSshd")
    /\ Cardinality(CallIdx("setupImageSsh")) <= 1

C3_Witness ==
    /\ SshRequested
    /\ Invoked("setupImageSsh")
    /\ Invoked("setupUserMounts")

C5_LoopAttachConditional ==
    /\ \A i \in CallIdx("mountImageLoop") :
          /\ image.useLoopMount
          /\ i > 1 /\ calls[i - 1].fn = "parse_ImageData" /\ calls[i - 1].ret = 0
          /\ \A j \in CallIdx("mountImageVFS") : i < j
    /\ \A j \in CallIdx("mountImageVFS") :
          j > 1 /\ IF image.useLoopMount
          THEN calls[j - 1].fn = "mountImageLoop" /\ calls[j - 1].ret = 0
          ELSE calls[j - 1].fn = "parse_ImageData" /\ calls[j - 1].ret = 0
    /\ ~image.useLoopMount => ~Invoked("mountImageLoop")

C5_Witness ==
    /\ image.useLoopMount
    /\ Invoked("mountImageLoop")
    /\ Invoked("mountImageVFS")

\* C6: startSshd is invoked only right after a successful setupImageSsh; both
\* come after a successful mountImageVFS and before setupUserMounts; if either
\* fails the process exits 1 and setupUserMounts is not invoked.
C6_SshAllOrAbort ==
    /\ \A i \in CallIdx("startSshd") :
          i > 1 /\ calls[i - 1].fn = "setupImageSsh" /\ calls[i - 1].ret = 0
    /\ \A i \in CallIdx("setupImageSsh") \cup CallIdx("startSshd") :
          /\ SucceededBefore("mountImageVFS", i)
          /\ \A j \in CallIdx("setupUserMounts") : i < j
          /\ calls[i].ret # 0 =>
                /\ exited
                /\ exitStatus = 1
                /\ ~Invoked("setupUserMounts")
    /\ \A j \in CallIdx("setupUserMounts") :
          Invoked("setupImageSsh") => Succeeded("setupImageSsh") /\ Succeeded("startSshd")

C6_Witness ==
    /\ Invoked("startSshd")
    /\ calls[Len(calls)].fn = "startSshd"
    /\ calls[Len(calls)].ret # 0
    /\ exited
    /\ exitStatus = 1

\* the slots a consumer of one of the three arrays must find for the -v
\* arguments of the command line: the field of each entry, in order, then NULL
ExpectedSlots(field) ==
    [i \in 1..Len(volArgs) |-> VolumeTokens(volArgs[i])[field]] \o <<Null>>

\* setupUserMounts is invoked when everything entered before it succeeded,
\* once, and nothing is invoked after it
C7_UserMountsOnceAndLast ==
    /\ \A i \in CallIdx("setupUserMounts") : i = Len(calls)
    /\ Cardinality(CallIdx("setupUserMounts")) <= 1
    /\ pc = "done" => Invoked("setupUserMounts")
    /\ (/\ Succeeded("mountImageVFS")
        /\ \A i \in 1..Len(calls) : calls[i].ret = 0
        /\ SshRequested => Succeeded("startSshd"))
          => (pc = "userMounts" \/ Invoked("setupUserMounts"))

\* setupUserMounts is given the entries of the -v options, in their order
C7_UserMountsGetTheMap ==
    \A i \in CallIdx("setupUserMounts") :
        IF volArgs = <<>>
        THEN /\ calls[i].args.from = NullArray
             /\ calls[i].args.to = NullArray
             /\ calls[i].args.flags = NullArray
        ELSE /\ calls[i].args.from.slots = ExpectedSlots("from")
             /\ calls[i].args.to.slots = ExpectedSlots("to")
             /\ calls[i].args.flags.slots = ExpectedSlots("flags")

\* C7: ApplyUserMounts is entered last: when all earlier stages succeed
\* setupUserMounts is invoked exactly once, nothing is invoked after it, and it
\* is given the volume-map entries in the order of the -v options (an empty map
\* without -v).
C7_ApplyUserMountsLast == C7_UserMountsOnceAndLast /\ C7_UserMountsGetTheMap

\* C8: before the reset nothing has been parsed and no collaborator called;
\* the reset runs once, and from then on, so at every collaborator call, the
\* environment holds PATH with the trusted value and nothing else.
C8_EnvironmentResetFirst ==
    /\ pc = "start" =>
          /\ envResets = 0
          /\ config = ZeroConfig
          /\ volArgs = <<>>
          /\ posArgs = <<>>
          /\ calls = <<>>
    /\ pc # "start" =>
          /\ envResets = 1
          /\ env = {<<"PATH", "/usr/bin:/usr/sbin:/bin:/sbin">>}

C8_Witness ==
    /\ envResets = 1
    /\ Invoked("setupImageSsh")
    /\ env = {<<"PATH", "/usr/bin:/usr/sbin:/bin:/sbin">>}

\* the bytes of [A-Za-z0-9_:.+-]
AllowedChars == (48..57) \cup (65..90) \cup (97..122) \cup {95, 58, 46, 43, 45}
IsAllowed(c) == c \in AllowedChars
OnlyAllowed(p) == p.k = "str" /\ \A i \in 1..Len(p.s) : p.s[i] \in AllowedChars

\* C9: the identifier given to parse_ImageData holds only bytes of
\* [A-Za-z0-9_:.+-], and whatever imageType and imageIdentifier hold in the
\* configuration, at any time, is filtered; the pipeline runs with both set.
C9_FilterIsInjectionBoundary ==
    /\ \A i \in CallIdx("parse_ImageData") : OnlyAllowed(calls[i].args.identifier)
    /\ config.imageType = Null \/ OnlyAllowed(config.imageType)
    /\ config.imageIdentifier = Null \/ OnlyAllowed(config.imageIdentifier)
    /\ pc \in {"loadSite", "resolve", "loop", "vfs", "ssh", "sshd", "userMounts", "done"} =>
          OnlyAllowed(config.imageType) /\ OnlyAllowed(config.imageIdentifier)

C9_Witness ==
    /\ Invoked("parse_ImageData")
    /\ Len(posArgs) = 2
    /\ \E i \in 1..Len(posArgs[2]) : posArgs[2][i] \notin AllowedChars
    /\ \E i \in 1..Len(posArgs[1]) : posArgs[1][i] \notin AllowedChars

\* C10: _filterString returns NULL for NULL and otherwise exactly the bytes of
\* the input that are in [A-Za-z0-9_:.+-], in their order: so only permitted
\* bytes, the input itself when it holds only permitted bytes, and the empty
\* string for an empty or all-rejected input.
C10_FilterStringContract ==
    pc = "filtered" =>
       /\ filterIn = Null => filterOut = Null
       /\ filterIn # Null =>
             /\ filterOut = Str(SelectSeq(filterIn.s, IsAllowed))
             /\ OnlyAllowed(filterOut)
             /\ OnlyAllowed(filterIn) => filterOut = filterIn
             /\ (\A i \in 1..Len(filterIn.s) : filterIn.s[i] \notin AllowedChars)
                   => filterOut = Str(<<>>)

C10_Witness ==
    /\ pc = "filtered"
    /\ filterIn = Str(<<47, 97>>)
    /\ filterOut = Str(<<97>>)

\* ------------------------------------------------ the from:to[:flags] form
\* The form the -v argument is documented to have, read off the argument
\* without strtok: the k-th field is what lies between the (k-1)-th and the
\* k-th colon.
ColonPositions(s) == {i \in 1..Len(s) : s[i] = 58}

\* position of the k-th colon of s; 0 for k = 0, Len(s) + 1 when there are fewer
NthColon(s, k) ==
    IF k = 0 THEN 0
    ELSE LET P == {i \in ColonPositions(s) :
                     Cardinality({j \in ColonPositions(s) : j <= i}) = k}
         IN IF P = {} THEN Len(s) + 1 ELSE CHOOSE i \in P : TRUE

\* the k-th field of s, Null when s has fewer than k fields
Field(s, k) ==
    IF NthColon(s, k - 1) > Len(s) THEN Null
    ELSE Str(SubSeq(s, NthColon(s, k - 1) + 1, NthColon(s, k) - 1))

Present(f) == f # Null /\ f # Str(<<>>)

\* from and to are both there
WellFormed(s) == Present(Field(s, 1)) /\ Present(Field(s, 2))

\* the entry a well-formed argument stands for
EntryOf(s) ==
    [from |-> Field(s, 1), to |-> Field(s, 2),
     flags |-> IF Present(Field(s, 3)) THEN Field(s, 3) ELSE Null]

\* parse_SetupRootConfig has returned 0
Parsed == config.imageType # Null

\* the arrays and cursors of the volume map
MapArrays == <<config.volumeMapFrom, config.volumeMapTo, config.volumeMapFlags>>
MapCursors == <<config.volumeMapFrom_ptr, config.volumeMapTo_ptr,
                config.volumeMapFlags_ptr>>

\* C11: when parsing has succeeded on a command line whose N -v options are
\* all well-formed, the volume map has exactly N entries and the i-th entry is
\* the one of the i-th -v option: each cursor stands at N and slot i of the
\* from, to and flags arrays holds the fields of the i-th option.
C11_EntriesInOrder ==
    (Parsed /\ \A i \in 1..Len(volArgs) : WellFormed(volArgs[i]))
       => /\ \A a \in 1..3 : MapCursors[a] = Len(volArgs)
          /\ \A i \in 1..Len(volArgs) :
               /\ \A a \in 1..3 : Len(MapArrays[a].slots) >= i
               /\ config.volumeMapFrom.slots[i] = EntryOf(volArgs[i]).from
               /\ config.volumeMapTo.slots[i] = EntryOf(volArgs[i]).to
               /\ config.volumeMapFlags.slots[i] = EntryOf(volArgs[i]).flags

\* C12: for an argument FROM:TO with non-empty colon-free FROM and TO the three
\* strtok calls give (FROM, TO, NULL); for FROM:TO:FLAGS with non-empty
\* colon-free fields they give (FROM, TO, FLAGS), whatever follows a third
\* colon: it is part of none of the three.
C12_VolumeFields ==
    pc = "tokenized" =>
       /\ (Cardinality(ColonPositions(volIn)) = 1 /\ WellFormed(volIn))
             => volOut = [from |-> Field(volIn, 1), to |-> Field(volIn, 2),
                          flags |-> Null]
       /\ (/\ Cardinality(ColonPositions(volIn)) >= 2
           /\ WellFormed(volIn)
           /\ Present(Field(volIn, 3)))
             => volOut = [from |-> Field(volIn, 1), to |-> Field(volIn, 2),
                          flags |-> Field(volIn, 3)]

\* a:r:a:r has been split: the text after the third colon is in no field
C12_Witness ==
    /\ pc = "tokenized"
    /\ volIn = <<97, 58, 114, 58, 97, 58, 114>>
    /\ volOut = [from |-> Str(<<97>>), to |-> Str(<<114>>), flags |-> Str(<<97>>)]

\* C13: a -v argument in which from or to is missing (a, a:, :b, :a:b) is
\* fatal: once such an argument has been given the process has exited with
\* status 1 and no collaborator has been invoked; and whenever the pipeline
\* runs, every entry of the volume map has a from and a to.
C13_MalformedEntryIsFatal ==
    /\ (\E i \in 1..Len(volArgs) : ~WellFormed(volArgs[i]))
          => (pc = "aborted" /\ exitStatus = 1 /\ calls = <<>>)
    /\ Parsed =>
          \A i \in 1..config.volumeMapFrom_ptr :
             /\ Len(config.volumeMapFrom.slots) >= i
             /\ Len(config.volumeMapTo.slots) >= i
             /\ config.volumeMapFrom.slots[i].k = "str"
             /\ config.volumeMapTo.slots[i].k = "str"

\* what _filterString is to make of a positional argument: its permitted bytes
Filtered(arg) == Str(SelectSeq(arg, IsAllowed))

\* with a number of positional arguments other than two the process has
\* exited with status 1 and nothing has been invoked; whatever the pipeline
\* runs on has imageType and imageIdentifier from two positional arguments
C14_TwoPositionalsState ==
    /\ Len(posArgs) \notin {0, 2}
          => (pc = "aborted" /\ exitStatus = 1 /\ calls = <<>>)
    /\ (Parsed \/ calls # <<>> \/ pc \in {"loadSite", "resolve", "loop", "mount",
                                         "ssh", "sshd", "userMounts", "done"})
          => /\ Len(posArgs) = 2
             /\ config.imageType = Filtered(posArgs[1])
             /\ config.imageIdentifier = Filtered(posArgs[2])

\* the step that ends the parsing of the options (other than at a -v option)
\* either finds two positional arguments and goes on to load the site
\* configuration, or exits with status 1 with nothing invoked
C14_TwoPositionalsStep ==
    (pc = "parse" /\ pc' # "parse" /\ volArgs' = volArgs)
       => \/ /\ Len(posArgs') = 2
             /\ pc' = "loadSite"
             /\ config'.imageType = Filtered(posArgs'[1])
             /\ config'.imageIdentifier = Filtered(posArgs'[2])
          \/ /\ Len(posArgs') # 2
             /\ pc' = "aborted" /\ exitStatus' = 1 /\ calls' = <<>>

\* C14: exactly two positional arguments are required. With any other number
\* (zero, one, three) parsing ends in exit status 1 before the site
\* configuration is loaded or anything is invoked; with two, imageType and
\* imageIdentifier are the filtered first and second positional argument, and
\* the pipeline never runs on anything else.
C14_ExactlyTwoPositionals ==
    [](C14_TwoPositionalsState) /\ [][C14_TwoPositionalsStep]_vars

\* three positional arguments were given and the process exited at once
C14_Witness ==
    /\ Len(posArgs) = 3
    /\ pc = "aborted"
    /\ exitStatus = 1
    /\ calls = <<>>

\* C15: the dump only reads. When the site configuration has been loaded, the
\* step goes on to resolve the image with every field of the configuration
\* (arrays and cursors included) as it was and with the process still running,
\* with the verbose flag as without it; only the verbose run writes to stdout.
C15_DumpReadOnly ==
    [][(pc = "loadSite" /\ calls'[Len(calls')].ret = 0)
          => /\ pc' = "resolve"
             /\ config' = config
             /\ ~exited'
             /\ (stdout' # stdout => config.verbose # 0)]_vars

\* C16: each of the three arrays, once allocated, is a whole number of
\* pointer-sized slots and has room for count + 1 of them, count being the
\* number of entries stored: the entry at index count - 1 and the NULL
\* terminator at index count both lie inside the allocation.
C16_RoomForTerminator ==
    \A a \in 1..3 :
       MapArrays[a].alloc
          => /\ MapArrays[a].bytes % PtrSize = 0
             /\ (MapCursors[a] + 1) * PtrSize <= MapArrays[a].bytes

\* the collaborators of the pipeline, each of which applies a stage
Collaborators ==
    {"parse_UdiRootConfig", "parse_ImageData", "mountImageLoop", "mountImageVFS",
     "setupImageSsh", "startSshd", "setupUserMounts"}

\* nothing but the stages is ever invoked, and a stage that failed is the last
\* thing invoked
C17_NothingAfterFailure ==
    \A i \in 1..Len(calls) :
       /\ calls[i].fn \in Collaborators
       /\ calls[i].ret # 0 => i = Len(calls)

\* a step adds at most one call to those made so far and takes none back; a
\* process that has exited makes none
C17_CallsStay ==
    /\ Len(calls') \in {Len(calls), Len(calls) + 1}
    /\ SubSeq(calls', 1, Len(calls)) = calls
    /\ exited => calls' = calls

\* C17: no rollback. The stages that completed stay applied when a later one
\* fails: the failing call is the last call of the run, no cleanup, unmount or
\* undo of any collaborator follows it, and what was invoked successfully
\* before it is still there at exit.
C17_NoRollback == [](C17_NothingAfterFailure) /\ [][C17_CallsStay]_vars

\* sshd failed to start after the loop device, the VFS mount and the SSH
\* provisioning were applied; the process has exited with them in place
C17_Witness ==
    /\ pc = "aborted"
    /\ exited
    /\ Succeeded("mountImageLoop")
    /\ Succeeded("mountImageVFS")
    /\ Succeeded("setupImageSsh")
    /\ calls[Len(calls)].fn = "startSshd"
    /\ calls[Len(calls)].ret # 0

\* what each collaborator was given is what the configuration holds
C18_ArgsFromConfig ==
    \A i \in 1..Len(calls) :
       /\ calls[i].fn = "mountImageVFS"
             => /\ calls[i].args.user = config.user
                /\ calls[i].args.minNodeSpec = config.minNodeSpec
       /\ calls[i].fn = "setupImageSsh"
             => /\ calls[i].args.sshPubKey = config.sshPubKey
                /\ calls[i].args.user = config.user
                /\ calls[i].args.uid = config.uid
       /\ calls[i].fn = "setupUserMounts"
             => /\ calls[i].args.from = config.volumeMapFrom
                /\ calls[i].args.to = config.volumeMapTo
                /\ calls[i].args.flags = config.volumeMapFlags

\* C18: once parse_SetupRootConfig has returned no step changes any field of
\* the configuration, the volume-map arrays and cursors included, so that
\* mountImageVFS (user, minNodeSpec), setupImageSsh (sshPubKey, user, uid) and
\* setupUserMounts (the from, to and flags arrays) are given the values the
\* parser left.
C18_ConfigFrozen ==
    [](C18_ArgsFromConfig) /\ [][Parsed => config' = config]_vars

\* a run with -u, -N, SSH and a volume map went through all three calls
C18_Witness ==
    /\ pc = "done"
    /\ Invoked("mountImageVFS")
    /\ Invoked("setupImageSsh")
    /\ Invoked("setupUserMounts")
    /\ config.user = Str(<<107>>)
    /\ config.minNodeSpec = Str(<<110>>)
    /\ config.volumeMapFrom.alloc

\* C19: every run ends in Done or Aborted and there is no retry: a process that
\* has not exited always has a step to take, one that has exited did so by
\* exit(0) after the last stage or by exit(1), and no collaborator is invoked
\* more than once.
C19_DoneOrAborted ==
    /\ exited => \/ pc = "done" /\ exitStatus = 0
                 \/ pc = "aborted" /\ exitStatus = 1
    /\ ~exited => ENABLED Next
    /\ \A fn \in Collaborators : Cardinality(CallIdx(fn)) <= 1

\* the three cursors are at the same offset count, from[i] and to[i] are
\* strings for every i < count, and the slot at count is NULL in all three
C20_Aligned ==
    LET count == config.volumeMapFrom_ptr
    IN /\ config.volumeMapTo_ptr = count
       /\ config.volumeMapFlags_ptr = count
       /\ config.volumeMapFrom.alloc =>
            /\ \A a \in 1..3 : Len(MapArrays[a].slots) >= count + 1
            /\ \A i \in 1..count :
                 /\ config.volumeMapFrom.slots[i].k = "str"
                 /\ config.volumeMapTo.slots[i].k = "str"
            /\ \A a \in 1..3 : MapArrays[a].slots[count + 1] = Null

\* a -v option that makes the process exit has changed no array and no cursor
C20_RejectedChangesNothing ==
    (volArgs' # volArgs /\ pc' = "aborted") => config' = config

\* C20: the three arrays of the volume map stay aligned. After any sequence of
\* accepted -v options the from, to and flags cursors are at the same offset
\* count, from[i] and to[i] are non-null for i < count, from[count], to[count]
\* and flags[count] are NULL, and a rejected -v option changes no array and no
\* cursor before the process exits.
C20_ArraysAligned == [](C20_Aligned) /\ [][C20_RejectedChangesNothing]_vars

============================================================================
